---- MODULE Spec2Model ----
(***************************************************************************)
(* UrbanTrack server (src/server/index.js): the rider table, the login     *)
(* endpoint and the position handler with its scoring, badge and challenge *)
(* helpers, as a state machine.                                            *)
(*                                                                         *)
(* Numbers.  JavaScript numbers are modelled in fixed point: a length is   *)
(* an integer count of 1/Resolution metre, a time an integer count of      *)
(* milliseconds since the epoch (1970-01-01 00:00 UTC, a Thursday).        *)
(* Coordinates.  All fixes lie on one meridian (one longitude); a latitude *)
(* is given by its arc length from the reference point, so the great-      *)
(* circle distance of two fixes is the absolute difference.                *)
(* Not modelled: the audit stamps createdAt, updatedAt, completedAt and    *)
(* the flag visible, which the server writes and never reads.              *)
(***************************************************************************)
EXTENDS Integers, Sequences, FiniteSets, TLC

VARIABLES
    riders,     \* DATA.riders: own properties, id -> rider
    users,      \* DATA.users: normalised email -> user
    inherited,  \* objects that DATA.riders[key] reaches through Object.prototype
    tz,         \* the server's time zone: local time minus UTC, in ms
    req,        \* the request handled last
    sent,       \* what the server sent while handling it, in order
    badgeLog,   \* history: <<rider key, badge id>> reported in some game_event
    doneLog,    \* history: <<rider key, challenge id, window key>> of every challenge_completed
    bonusLog,   \* history: rider key -> sum of the bonusPoints of its challenge_completed events
    up,         \* the process is running
    inbox,      \* connection -> the message its socket has received and not yet handled
    run,        \* connection -> the frame of its 'message' callback while it executes
    seen,       \* connection -> what the server sent it since the last callback began
    disk,       \* DATA.riders as data.json holds it
    lastSave,   \* how the last fs.writeFileSync ended
    serial      \* history: the rider table had every message been handled whole, in
                \* the order the callbacks began

loopVars == <<up, inbox, run, seen, disk, lastSave, serial>>
vars == <<riders, users, inherited, tz, req, sent, badgeLog, doneLog, bonusLog, loopVars>>

----------------------------------------------------------------------------
\* Program constants

MAX_SPEED_KMH == 140
POINTS_PER_KM == 10
BADGE_MILESTONES_METERS == <<1000, 5000, 10000, 25000, 50000, 100000>>
HISTORY_MAX == 200

\* DATA.challenges after start-up, in insertion order (Object.entries order)
CHALLENGES ==
    << [id |-> "daily_1km",  name |-> "1 km par jour",    period |-> "daily",  targetMeters |-> 1000],
       [id |-> "weekly_5km", name |-> "5 km par semaine", period |-> "weekly", targetMeters |-> 5000] >>

\* Fixed point: units per metre
Resolution == 10
\* Milliseconds per day (Date arithmetic)
DayMs == 24 * 60 * 60 * 1000
HourMs == 60 * 60 * 1000

Null == <<>>              \* null / undefined object
Undefined == "undefined"  \* an undefined string property
NotANumber == 0 - 1       \* any payload value v with typeof v !== 'number'

----------------------------------------------------------------------------
\* Bounds and inputs

MaxHist == 3    \* history entries over all riders
MaxSusp == 2    \* speed rejections over all riders
MaxRide == 2    \* history entries over all riders, in the scoring runs
MaxSamples == 203   \* hourly samples of one device, in the long walk
MaxLoop == 1    \* history entries over all riders, in the event-loop runs

Ids == {"r1"}                     \* what shortid.generate() hands out
SpareIds == {"r2"}                \* what it hands out once Ids are used up
InheritedKeys == {"constructor"}  \* keys every object inherits from Object.prototype
UnknownIds == {"zz"}
Conns == {"c1", "c2"}             \* the open WebSocket connections
ClientOrder == <<"c1", "c2">>     \* wss.clients in iteration order

\* Arc positions (units): 0 m and 2500.4 m
Lats == {0, 25004}
Lons == {3}
\* Mon 1970-01-05 23:29:00 UTC; 60 s later; one more hour later (Tue 00:30:00 UTC)
T0 == 4 * DayMs + 23 * HourMs + 29 * 60 * 1000
T1 == T0 + 60 * 1000
T2 == T1 + HourMs
Times == {T0, T1, T2}
Clocks == {T1}                    \* Date.now() when a sample without ts arrives
TzOffsets == {0, 2 * HourMs}      \* UTC and UTC+2

\* Scoring runs: 0 m, 500 m, 1000 m and 6000 m; Mon 23:29 and Tue 00:30 UTC
ScoringLats == {0, 5000, 10000, 60000}
ScoringTimes == {T0, T2}

\* Long walk: 100 m north every hour; a jump of 3000 m within a minute
WalkStep == 100 * Resolution
WalkJump == 3000 * Resolution

EmailInputs == {"", "nobody", "a@x.io", " A@X.io "}
MainEmails == {"a@x.io"}
PseudoInputs == {"Zoe"}
\* Registration runs: a second address, and a login without pseudo
LoginEmails == EmailInputs \cup {"b@y.io"}
LoginPseudos == PseudoInputs \cup {""}
RandomPseudo == "Rider-k3x9a1"

----------------------------------------------------------------------------
\* Arithmetic helpers

Abs(x) == IF x < 0 THEN 0 - x ELSE x
Max(a, b) == IF a > b THEN a ELSE b

\* Math.floor(d / 1000) of a length d
FloorKm(d) == d \div (1000 * Resolution)

\* Math.round(d) of a length d, in whole metres (half rounds up)
RoundMeters(d) == (2 * d + Resolution) \div (2 * Resolution)

\* faulty variant: the signed difference instead of the distance
haversineMeters_Signed(a, b) == b.lat - a.lat

\* haversineMeters(a, b) for two fixes of the same meridian
haversineMeters(a, b) == Abs(b.lat - a.lat)

\* faulty variant: the factor 3.6 forgotten (metres per second compared with MAX_SPEED_KMH)
SpeedExceeds_NoFactor(m, dtMs) ==
    LET k == MAX_SPEED_KMH * Resolution
    IN  dtMs > 0 /\ dtMs < (m * 1000 + k - 1) \div k

\* speedKmh > MAX_SPEED_KMH, where speedKmh = meters / ((ts - last.ts)/1000) * 3.6
\* for dt > 0; with m units and dtMs milliseconds: m * 3600 > MAX * Resolution * dtMs,
\* written with a division to stay inside 32-bit integers.
SpeedExceeds(m, dtMs) ==
    LET k == MAX_SPEED_KMH * Resolution
    IN  dtMs > 0 /\ dtMs < (m * 3600 + k - 1) \div k

\* new Date(ts).toISOString().slice(0,10): the UTC calendar day, as a day number
IsoDate(ts) == [day |-> ts \div DayMs]

\* Date.prototype.getDay() (0 = Sunday), in the server's local time
GetDay(ts, zone) == (((ts + zone) \div DayMs) + 4) % 7

dayKey(ts) == IsoDate(ts)

\* start.setDate(now.getDate() - diff) moves back diff local days, same time of day
weekKey(ts, zone) ==
    LET diff == (GetDay(ts, zone) + 6) % 7
    IN  IsoDate(ts - diff * DayMs)

BadgeId(m) == <<"badge_", m>>
Includes(seq, x) == \E i \in 1..Len(seq) : seq[i] = x
Range(seq) == {seq[i] : i \in 1..Len(seq)}

----------------------------------------------------------------------------
\* Objects

\* the rider object built by /api/login
NewRider(id, pseudo) ==
    [id |-> id, name |-> pseudo, last |-> Null, history |-> <<>>, distance |-> 0,
     score |-> 0, badges |-> <<>>, challenges |-> <<>>, suspicious |-> 0]

\* the function Object, seen as a rider: every rider field is undefined
\* (read through `|| 0` / `|| []` / `|| {}`), its name is "Object"
ObjectFunction ==
    [id |-> Undefined, name |-> "Object", last |-> Null, history |-> <<>>, distance |-> 0,
     score |-> 0, badges |-> <<>>, challenges |-> <<>>, suspicious |-> 0]

\* DATA.riders[id]: an own property, else an inherited one, else undefined
Lookup(id) ==
    IF id \in DOMAIN riders THEN riders[id]
    ELSE IF id \in InheritedKeys THEN inherited[id]
    ELSE Null

----------------------------------------------------------------------------
\* Scoring helpers; each returns the rider it mutates together with its result

\* faulty variant: the kilometres of the delta, not the kilometre marks passed
awardPointsPerKm_Delta(rider, prevDistance, newDistance) ==
    LET kmsGained == Max(0, FloorKm(newDistance - prevDistance))
        pointsGained == kmsGained * POINTS_PER_KM
    IN  [rider |-> IF pointsGained # 0
                   THEN [rider EXCEPT !.score = @ + pointsGained]
                   ELSE rider,
         kmsGained |-> kmsGained, pointsGained |-> pointsGained]

\* faulty variant: Math.round instead of Math.floor
awardPointsPerKm_Round(rider, prevDistance, newDistance) ==
    LET prevKm == (2 * prevDistance + 1000 * Resolution) \div (2000 * Resolution)
        newKm == (2 * newDistance + 1000 * Resolution) \div (2000 * Resolution)
        kmsGained == Max(0, newKm - prevKm)
        pointsGained == kmsGained * POINTS_PER_KM
    IN  [rider |-> IF pointsGained # 0
                   THEN [rider EXCEPT !.score = @ + pointsGained]
                   ELSE rider,
         kmsGained |-> kmsGained, pointsGained |-> pointsGained]

awardPointsPerKm(rider, prevDistance, newDistance) ==
    LET prevKm == FloorKm(prevDistance)
        newKm == FloorKm(newDistance)
        kmsGained == Max(0, newKm - prevKm)
        pointsGained == kmsGained * POINTS_PER_KM
    IN  [rider |-> IF pointsGained # 0
                   THEN [rider EXCEPT !.score = @ + pointsGained]
                   ELSE rider,
         kmsGained |-> kmsGained, pointsGained |-> pointsGained]

RECURSIVE BadgeLoop(_, _, _, _)
\* the for loop of checkAndAwardBadges from milestone i on; acc = [rider, newly]
BadgeLoop(acc, prevDistance, newDistance, i) ==
    IF i > Len(BADGE_MILESTONES_METERS) THEN acc
    ELSE LET m == BADGE_MILESTONES_METERS[i]
             badgeId == BadgeId(m)
             hit == /\ prevDistance < m * Resolution
                    /\ newDistance >= m * Resolution
                    /\ ~Includes(acc.rider.badges, badgeId)
             nxt == IF hit
                    THEN [rider |-> [acc.rider EXCEPT !.badges = Append(@, badgeId)],
                          newly |-> Append(acc.newly, [id |-> badgeId, label |-> <<m \div 1000, " km">>])]
                    ELSE acc
         IN  BadgeLoop(nxt, prevDistance, newDistance, i + 1)

\* faulty variant: `rider.badges = []` instead of `rider.badges = rider.badges || []`
checkAndAwardBadges_Reset(rider, prevDistance, newDistance) ==
    BadgeLoop([rider |-> [rider EXCEPT !.badges = <<>>], newly |-> <<>>],
              prevDistance, newDistance, 1)

\* faulty variant: the loop left after the first badge it awards
checkAndAwardBadges_First(rider, prevDistance, newDistance) ==
    LET all == BadgeLoop([rider |-> rider, newly |-> <<>>], prevDistance, newDistance, 1)
    IN  IF Len(all.newly) <= 1 THEN all
        ELSE [rider |-> [rider EXCEPT !.badges = Append(@, all.newly[1].id)],
              newly |-> <<all.newly[1]>>]

checkAndAwardBadges(rider, prevDistance, newDistance) ==
    BadgeLoop([rider |-> rider, newly |-> <<>>], prevDistance, newDistance, 1)

\* the window key the loop body computes for one challenge
WindowKey(chal, ts, zone) ==
    IF chal.period = "daily" THEN dayKey(ts) ELSE weekKey(ts, zone)

\* faulty variant: `if (prog.completed) continue` forgotten
ChallengeStep_NoSkip(acc, chal, addedMeters, ts, zone) ==
    LET cid == chal.id
        prog0 == IF cid \in DOMAIN acc.rider.challenges
                 THEN acc.rider.challenges[cid]
                 ELSE [progressMeters |-> 0, lastReset |-> Null, completed |-> FALSE]
        key == WindowKey(chal, ts, zone)
        prog1 == IF prog0.lastReset # key
                 THEN [progressMeters |-> 0, lastReset |-> key, completed |-> FALSE]
                 ELSE prog0
        prog2 == [prog1 EXCEPT !.progressMeters = @ + addedMeters]
        reached == prog2.progressMeters >= chal.targetMeters * Resolution
        bonus == (chal.targetMeters \div 1000) * 5
        put(r, p) == [r EXCEPT !.challenges =
                        [c \in DOMAIN @ \cup {cid} |-> IF c = cid THEN p ELSE @[c]]]
    IN  IF reached
        THEN [rider |-> [put(acc.rider, [prog2 EXCEPT !.completed = TRUE])
                            EXCEPT !.score = @ + bonus],
              events |-> Append(acc.events,
                  [type |-> "challenge_completed", challengeId |-> cid,
                   riderId |-> acc.rider.id, bonusPoints |-> bonus])]
        ELSE [rider |-> put(acc.rider, prog2), events |-> acc.events]

\* one iteration of the loop of updateChallengesForRider; acc = [rider, events]
ChallengeStep(acc, chal, addedMeters, ts, zone) ==
    LET cid == chal.id
        prog0 == IF cid \in DOMAIN acc.rider.challenges
                 THEN acc.rider.challenges[cid]
                 ELSE [progressMeters |-> 0, lastReset |-> Null, completed |-> FALSE]
        key == WindowKey(chal, ts, zone)
        prog1 == IF prog0.lastReset # key
                 THEN [progressMeters |-> 0, lastReset |-> key, completed |-> FALSE]
                 ELSE prog0
        prog2 == [prog1 EXCEPT !.progressMeters = @ + addedMeters]
        reached == prog2.progressMeters >= chal.targetMeters * Resolution
        bonus == (chal.targetMeters \div 1000) * 5
        put(r, p) == [r EXCEPT !.challenges =
                        [c \in DOMAIN @ \cup {cid} |-> IF c = cid THEN p ELSE @[c]]]
    IN  IF prog1.completed
        THEN [rider |-> put(acc.rider, prog1), events |-> acc.events]
        ELSE IF reached
        THEN [rider |-> [put(acc.rider, [prog2 EXCEPT !.completed = TRUE])
                            EXCEPT !.score = @ + bonus],
              events |-> Append(acc.events,
                  [type |-> "challenge_completed", challengeId |-> cid,
                   riderId |-> acc.rider.id, bonusPoints |-> bonus])]
        ELSE [rider |-> put(acc.rider, prog2), events |-> acc.events]

RECURSIVE ChallengeLoop(_, _, _, _, _)
ChallengeLoop(acc, i, addedMeters, ts, zone) ==
    IF i > Len(CHALLENGES) THEN acc
    ELSE ChallengeLoop(ChallengeStep(acc, CHALLENGES[i], addedMeters, ts, zone),
                       i + 1, addedMeters, ts, zone)

updateChallengesForRider(rider, addedMeters, ts, zone) ==
    ChallengeLoop([rider |-> rider, events |-> <<>>], 1, addedMeters, ts, zone)

----------------------------------------------------------------------------
\* handlePosition

IsInvalid(payload) ==
    payload.lat = NotANumber \/ payload.lon = NotANumber \/ payload.id = ""

\* const ts = payload.ts || now
SampleTs(payload, now) == IF payload.ts # 0 THEN payload.ts ELSE now

Fix(payload, ts) == [lat |-> payload.lat, lon |-> payload.lon, ts |-> ts]

\* faulty variant: the comparison of the timestamps forgotten
Accrues_NoTsCheck(rider, ts) == rider.last # Null

\* last && last.ts && ts > last.ts
Accrues(rider, ts) == rider.last # Null /\ rider.last.ts # 0 /\ ts > rider.last.ts

\* faulty variant: pop() instead of shift()
PushHistory_Pop(history, entry) ==
    LET h == Append(history, entry)
    IN  IF Len(h) > HISTORY_MAX THEN SubSeq(h, 1, Len(h) - 1) ELSE h

\* rider.history.push(...); if (rider.history.length > 200) rider.history.shift()
PushHistory(history, entry) ==
    LET h == Append(history, entry)
    IN  IF Len(h) > HISTORY_MAX THEN Tail(h) ELSE h

RiderUpdate(rider, payload) ==
    [type |-> "rider_update",
     rider |-> [id |-> rider.id, name |-> rider.name, lat |-> payload.lat, lon |-> payload.lon,
                distance |-> RoundMeters(rider.distance), score |-> rider.score]]

GameEvent(rider, kmsGained, pointsGained, newlyBadges, challengeEvents) ==
    [type |-> "game_event", riderId |-> rider.id, name |-> rider.name,
     kmsGained |-> kmsGained, pointsGained |-> pointsGained,
     newBadges |-> newlyBadges, challengeEvents |-> challengeEvents]

\* faulty variant: the kilometres forgotten in the condition
HasGameEvent_NoKms(kmsGained, newlyBadges, challengeEvents) ==
    Len(newlyBadges) > 0 \/ Len(challengeEvents) > 0

\* if ((kmsGained && kmsGained>0) || newlyBadges.length || challengeEvents.length)
HasGameEvent(kmsGained, newlyBadges, challengeEvents) ==
    kmsGained > 0 \/ Len(newlyBadges) > 0 \/ Len(challengeEvents) > 0

\* rider.last = { lat, lon, ts }
SetLast(rider, payload, ts) == [rider EXCEPT !.last = Fix(payload, ts)]

\* lines 164-178: the body of the branch taken when the sample is newer than the last fix
AccrueBranch(rider, payload, ts, zone) ==
    LET meters == haversineMeters(rider.last, payload)
        dt == ts - rider.last.ts
    IN  IF SpeedExceeds(meters, dt)
        THEN [rider |-> [rider EXCEPT !.suspicious = @ + 1],
              broadcast |-> <<>>, returned |-> TRUE,
              result |-> [accepted |-> FALSE, reason |-> "speed"]]
        ELSE LET r1 == [rider EXCEPT !.distance = @ + meters,
                                     !.history = PushHistory(@,
                                         [lat |-> payload.lat, lon |-> payload.lon, ts |-> ts,
                                          meters |-> RoundMeters(meters)])]
                 prevDistance == r1.distance - meters
                 pts == awardPointsPerKm(r1, prevDistance, r1.distance)
                 bdg == checkAndAwardBadges(pts.rider, prevDistance, r1.distance)
                 chl == updateChallengesForRider(bdg.rider, meters, ts, zone)
                 upd == <<RiderUpdate(chl.rider, payload)>>
                 evt == IF HasGameEvent(pts.kmsGained, bdg.newly, chl.events)
                        THEN <<GameEvent(chl.rider, pts.kmsGained, pts.pointsGained,
                                         bdg.newly, chl.events)>>
                        ELSE <<>>
             IN  [rider |-> chl.rider, broadcast |-> upd \o evt, returned |-> FALSE,
                  result |-> Null]

\* faulty variant: the challenge windows are also checked when the sample is not newer
HandleResolved_Rollover(rider, payload, ts, zone) ==
    LET br == IF Accrues(rider, ts)
              THEN AccrueBranch(rider, payload, ts, zone)
              ELSE [rider |-> updateChallengesForRider(rider, 0, ts, zone).rider,
                    broadcast |-> <<>>, returned |-> FALSE, result |-> Null]
    IN  IF br.returned THEN br
        ELSE [rider |-> SetLast(br.rider, payload, ts), broadcast |-> br.broadcast,
              returned |-> TRUE, result |-> [accepted |-> TRUE, id |-> br.rider.id]]

\* handlePosition for a payload that resolves to the object `rider`
HandleResolved(rider, payload, ts, zone) ==
    LET br == IF Accrues(rider, ts)
              THEN AccrueBranch(rider, payload, ts, zone)
              ELSE [rider |-> rider, broadcast |-> <<>>, returned |-> FALSE, result |-> Null]
    IN  IF br.returned THEN br
        ELSE [rider |-> SetLast(br.rider, payload, ts), broadcast |-> br.broadcast,
              returned |-> TRUE, result |-> [accepted |-> TRUE, id |-> br.rider.id]]

\* handlePosition(payload): the object it leaves behind (Null when it resolves none),
\* its broadcasts in order, and the value it returns
handlePosition(payload, now, zone) ==
    IF IsInvalid(payload)
    THEN [rider |-> Null, broadcast |-> <<>>, result |-> [accepted |-> FALSE, reason |-> "invalid"]]
    ELSE IF Lookup(payload.id) = Null
    THEN [rider |-> Null, broadcast |-> <<>>, result |-> [accepted |-> FALSE, reason |-> "unknown_rider"]]
    ELSE LET h == HandleResolved(Lookup(payload.id), payload, SampleTs(payload, now), zone)
         IN  [rider |-> h.rider, broadcast |-> h.broadcast, result |-> h.result]

----------------------------------------------------------------------------
\* History bookkeeping (not program state)

CompletedKeys(key, events, ts, zone) ==
    { <<key, CHALLENGES[i].id, WindowKey(CHALLENGES[i], ts, zone)>> :
        i \in { j \in 1..Len(CHALLENGES) :
                  \E k \in 1..Len(events) : events[k].challengeId = CHALLENGES[j].id } }

GameEvents(bc) == { bc[i] : i \in { j \in 1..Len(bc) : bc[j].type = "game_event" } }

ReportedBadges(key, bc) ==
    UNION { { <<key, e.newBadges[i].id>> : i \in 1..Len(e.newBadges) } : e \in GameEvents(bc) }

\* the bonusPoints of the challenge_completed events of a list, summed
RECURSIVE BonusSum(_)
BonusSum(events) ==
    IF events = <<>> THEN 0 ELSE events[1].bonusPoints + BonusSum(Tail(events))

\* ... over the game_events of the broadcasts of one request (there is at most one)
BonusOf(bc) ==
    IF GameEvents(bc) = {} THEN 0
    ELSE BonusSum((CHOOSE e \in GameEvents(bc) : TRUE).challengeEvents)

SumOver(f) ==
    LET RECURSIVE Sum(_)
        Sum(S) == IF S = {} THEN 0
                  ELSE LET x == CHOOSE y \in S : TRUE IN f[x] + Sum(S \ {x})
    IN  Sum(DOMAIN f)

\* history entries / speed rejections over every object of the model
TotalHistory(rs, inh) ==
    SumOver([k \in DOMAIN rs |-> Len(rs[k].history)])
      + SumOver([k \in DOMAIN inh |-> Len(inh[k].history)])
TotalSuspicious(rs, inh) ==
    SumOver([k \in DOMAIN rs |-> rs[k].suspicious])
      + SumOver([k \in DOMAIN inh |-> inh[k].suspicious])

----------------------------------------------------------------------------
\* /api/login

\* faulty variant: the address taken as it was typed
NormalizeEmail_Raw(raw) == raw

\* (req.body.email || '').trim().toLowerCase()
NormalizeEmail(raw) == IF raw = " A@X.io " THEN "a@x.io" ELSE raw

\* email.includes('@')
HasAt(email) == email \in {"a@x.io", " A@X.io ", "b@y.io"}

\* (req.body.pseudo || '').trim().slice(0,40) || ('Rider-' + random)
PseudoOf(raw) == IF raw = "" THEN RandomPseudo ELSE raw

UsedIds == { users[e].id : e \in DOMAIN users }

\* the ids shortid.generate() may return: never one it returned before
FreshIds == IF Ids \ UsedIds # {} THEN Ids \ UsedIds ELSE SpareIds \ UsedIds

OnLogin(rawEmail, rawPseudo) ==
    LET email == NormalizeEmail(rawEmail)
        pseudo == PseudoOf(rawPseudo)
    IN  /\ req' = [type |-> "login", email |-> rawEmail, pseudo |-> rawPseudo]
        /\ UNCHANGED <<inherited, tz, badgeLog, doneLog, bonusLog>>
        /\ IF email = "" \/ ~HasAt(email)
           THEN /\ sent' = << [to |-> "sender",
                               msg |-> [status |-> 400, ok |-> FALSE, error |-> "invalid_email"]] >>
                /\ UNCHANGED <<riders, users>>
           ELSE IF email \in DOMAIN users
           THEN /\ sent' = << [to |-> "sender",
                               msg |-> [status |-> 200, ok |-> TRUE, id |-> users[email].id,
                                        pseudo |-> riders[users[email].id].name]] >>
                /\ UNCHANGED <<riders, users>>
           ELSE \E id \in FreshIds :           \* const id = shortid.generate()
                /\ users' = [e \in DOMAIN users \cup {email} |->
                               IF e = email THEN [id |-> id, email |-> email, pseudo |-> pseudo]
                               ELSE users[e]]
                /\ riders' = [r \in DOMAIN riders \cup {id} |->
                               IF r = id THEN NewRider(id, pseudo) ELSE riders[r]]
                /\ sent' = << [to |-> "sender",
                               msg |-> [status |-> 200, ok |-> TRUE, id |-> id, pseudo |-> pseudo]] >>

Login(rawEmail, rawPseudo) == OnLogin(rawEmail, rawPseudo) /\ UNCHANGED loopVars

----------------------------------------------------------------------------
\* ws.on('message') for a message of type 'position'

Broadcasts(bc) == [i \in 1..Len(bc) |-> [to |-> "all", msg |-> bc[i]]]

\* the handler, whatever the size of the state
OnPosition(payload, now) ==
    \E h \in {handlePosition(payload, now, tz)} :
      LET key == payload.id
          ts == SampleTs(payload, now)
      IN  /\ riders' = IF h.rider # Null /\ key \in DOMAIN riders
                       THEN [riders EXCEPT ![key] = h.rider] ELSE riders
          /\ inherited' = IF h.rider # Null /\ key \notin DOMAIN riders
                          THEN [inherited EXCEPT ![key] = h.rider] ELSE inherited
          /\ req' = [type |-> "position", payload |-> payload, ts |-> ts]
          /\ sent' = Broadcasts(h.broadcast)
                       \o << [to |-> "sender", msg |-> [type |-> "ack", result |-> h.result]] >>
          /\ badgeLog' = badgeLog \cup ReportedBadges(key, h.broadcast)
          /\ doneLog' = doneLog \cup
                          UNION { CompletedKeys(key, e.challengeEvents, ts, tz) :
                                    e \in GameEvents(h.broadcast) }
          /\ bonusLog' = IF BonusOf(h.broadcast) = 0 THEN bonusLog
                         ELSE [bonusLog EXCEPT ![key] = @ + BonusOf(h.broadcast)]
          /\ UNCHANGED <<users, tz>>

\* the handler, explored while the histories and rejection counters stay in the bounds
Position(payload, now) ==
    /\ OnPosition(payload, now)
    /\ TotalHistory(riders', inherited') <= MaxHist
    /\ TotalSuspicious(riders', inherited') <= MaxSusp
    /\ UNCHANGED loopVars

\* Samples for registered ids (before the login they are samples of an unknown
\* rider); a sample without ts is stamped with the server's clock
RiderPayloads == [id : Ids, lat : Lats, lon : Lons, ts : Times \cup {0}]
Payloads == RiderPayloads
\* A sample for an id nobody registered, payloads that fail the check of line 156,
\* samples for a key DATA.riders inherits, and a first fix of a registered rider
UnknownPayloads == [id : UnknownIds, lat : {0}, lon : Lons, ts : {T0}]
Malformed == { [id |-> "", lat |-> 0, lon |-> 3, ts |-> T0],
               [id |-> "r1", lat |-> NotANumber, lon |-> 3, ts |-> T0],
               [id |-> "r1", lat |-> 0, lon |-> NotANumber, ts |-> T0] }
InheritedPayloads == [id : InheritedKeys, lat : Lats, lon : Lons, ts : {T0, T2}]
FirstPayloads == [id : Ids, lat : {0}, lon : Lons, ts : {T0}]
ValidationPayloads == InheritedPayloads \cup FirstPayloads \cup UnknownPayloads \cup Malformed

----------------------------------------------------------------------------

Init ==
    /\ riders = <<>>
    /\ users = <<>>
    /\ inherited = [k \in InheritedKeys |-> ObjectFunction]
    /\ tz \in TzOffsets
    /\ req = Null
    /\ sent = <<>>
    /\ badgeLog = {}
    /\ doneLog = {}
    /\ bonusLog = [k \in Ids \cup SpareIds \cup InheritedKeys |-> 0]
    /\ up = TRUE
    /\ inbox = [c \in Conns |-> Null]
    /\ run = [c \in Conns |-> Null]
    /\ seen = [c \in Conns |-> <<>>]
    /\ disk = Null
    /\ lastSave = "none"
    /\ serial = <<>>

Next ==
    \/ \E e \in MainEmails, p \in PseudoInputs : Login(e, p)
    \/ \E payload \in Payloads, now \in Clocks : Position(payload, now)

Spec == Init /\ [][Next]_vars

\* The same server under the requests its validation is there for: every kind of
\* login, malformed payloads, unregistered ids and keys of Object.prototype
NextValidation ==
    \/ \E e \in EmailInputs, p \in PseudoInputs : Login(e, p)
    \/ \E payload \in ValidationPayloads, now \in Clocks : Position(payload, now)

SpecValidation == Init /\ [][NextValidation]_vars

\* The same server under slow rides whose steps are 500 m to 6000 m long, an hour
\* apart: samples that gain no, one or several kilometres, cross several milestones
\* or complete both challenges at once
ScoringPayloads == [id : Ids, lat : ScoringLats, lon : Lons, ts : ScoringTimes]

Ride(payload, now) ==
    /\ OnPosition(payload, now)
    /\ TotalHistory(riders', inherited') <= MaxRide
    /\ UNCHANGED loopVars

NextScoring ==
    \/ \E e \in MainEmails, p \in PseudoInputs : Login(e, p)
    \/ \E payload \in ScoringPayloads, now \in Clocks : Ride(payload, now)

SpecScoring == Init /\ [][NextScoring]_vars

\* The same server under one device that walks north for days: a first fix, then
\* every hour a sample 100 m further, each possibly sent twice, and now and then a
\* sample the speed gate rejects
WalkPayloads(r) ==
    LET last == riders[r].last
    IN  IF last = Null
        THEN [id : {r}, lat : {0}, lon : Lons, ts : {T0}]
        ELSE { [id |-> r, lat |-> last.lat + WalkStep, lon |-> last.lon, ts |-> last.ts + HourMs],
               [id |-> r, lat |-> last.lat, lon |-> last.lon, ts |-> last.ts],
               [id |-> r, lat |-> last.lat + WalkJump, lon |-> last.lon, ts |-> last.ts + 60 * 1000] }

Walk(r) ==
    \E payload \in WalkPayloads(r), now \in Clocks :
        /\ payload.ts <= T0 + MaxSamples * HourMs
        /\ OnPosition(payload, now)
        /\ TotalSuspicious(riders', inherited') <= MaxSusp
        /\ UNCHANGED loopVars

NextWalk ==
    \/ \E e \in MainEmails, p \in PseudoInputs : Login(e, p)
    \/ \E r \in DOMAIN riders : Walk(r)

SpecWalk == Init /\ [][NextWalk]_vars

\* The same server under registrations: two addresses, one of them also typed with
\* blanks and capitals, addresses the endpoint refuses, and rides of the rider
\* registered first between the logins
LoginPayloads == [id : Ids, lat : Lats, lon : Lons, ts : {T0, T2}]

NextLogin ==
    \/ \E e \in LoginEmails, p \in LoginPseudos : Login(e, p)
    \/ \E payload \in LoginPayloads, now \in Clocks : Ride(payload, now)

SpecLogin == Init /\ [][NextLogin]_vars

----------------------------------------------------------------------------
\* The event loop: the callbacks of the server as Node.js runs them.  A callback is
\* a synchronous function (no await, no nested callback): once begun it runs to its
\* end, or to the exception that leaves it, before the loop begins another one.
\* handlePosition is taken in the steps the specification names: resolve, filter,
\* score, challenge update, broadcasts, commit, ack.

mainHist == <<req, sent, badgeLog, doneLog, bonusLog>>

\* faulty variant: a callback may begin while another one is under way
CanStart_Anytime(c) == IF c \in Conns THEN run[c] = Null ELSE TRUE

\* the loop begins a callback (of a socket, a timer, a request, a signal) only when
\* no callback is executing
CanStart(c) == \A d \in Conns : run[d] = Null

\* the locals of handlePosition and of the 'message' callback around it
Frame(payload, now) ==
    [payload |-> payload, ts |-> SampleTs(payload, now), pc |-> "resolve", last |-> Null,
     meters |-> 0, kmsGained |-> 0, pointsGained |-> 0, newly |-> <<>>, events |-> <<>>,
     result |-> Null]

\* a write through the reference `rider` that DATA.riders[id] returned
Store(id, rider) ==
    /\ riders' = IF id \in DOMAIN riders THEN [riders EXCEPT ![id] = rider] ELSE riders
    /\ inherited' = IF id \in DOMAIN riders THEN inherited
                    ELSE [inherited EXCEPT ![id] = rider]

\* the rider table after a whole handlePosition on the table `table`
SerialStep(table, payload, now) ==
    IF IsInvalid(payload) \/ payload.id \notin DOMAIN table THEN table
    ELSE [table EXCEPT ![payload.id] =
            HandleResolved(table[payload.id], payload, SampleTs(payload, now), tz).rider]

\* a socket receives a position message
Receive(c, payload) ==
    /\ up /\ inbox[c] = Null
    /\ inbox' = [inbox EXCEPT ![c] = payload]
    /\ UNCHANGED <<riders, users, inherited, tz, mainHist, up, run, seen, disk, lastSave, serial>>

\* ws.on('message'): the callback of connection c begins
Begin(c, now) ==
    /\ up /\ CanStart(c) /\ inbox[c] # Null
    /\ run' = [run EXCEPT ![c] = Frame(inbox[c], now)]
    /\ inbox' = [inbox EXCEPT ![c] = Null]
    /\ seen' = [k \in Conns |-> <<>>]
    /\ serial' = SerialStep(serial, inbox[c], now)
    /\ \A table \in {serial', SerialStep(riders, inbox[c], now)} :
         /\ TotalHistory(table, inherited) <= MaxLoop
         /\ TotalSuspicious(table, inherited) <= MaxSusp
    /\ UNCHANGED <<riders, users, inherited, tz, mainHist, up, disk, lastSave>>

\* lines 156-161: the checks of the payload and of the id, `last = rider.last`
Resolve(c) ==
    /\ up /\ run[c] # Null /\ run[c].pc = "resolve"
    /\ LET f == run[c]
       IN  run' = [run EXCEPT ![c] =
             IF IsInvalid(f.payload)
             THEN [f EXCEPT !.pc = "ack", !.result = [accepted |-> FALSE, reason |-> "invalid"]]
             ELSE IF Lookup(f.payload.id) = Null
             THEN [f EXCEPT !.pc = "ack", !.result = [accepted |-> FALSE, reason |-> "unknown_rider"]]
             ELSE [f EXCEPT !.pc = "filter", !.last = Lookup(f.payload.id).last]]
    /\ UNCHANGED <<riders, users, inherited, tz, mainHist, up, inbox, seen, disk, lastSave, serial>>

\* lines 162-166: the distance to the last fix and the speed gate
Filter(c) ==
    /\ up /\ run[c] # Null /\ run[c].pc = "filter"
    /\ LET f == run[c]
           rider == Lookup(f.payload.id)
           newer == f.last # Null /\ f.last.ts # 0 /\ f.ts > f.last.ts
           meters == haversineMeters(f.last, f.payload)
       IN  IF ~newer
           THEN /\ run' = [run EXCEPT ![c] = [f EXCEPT !.pc = "commit"]]
                /\ UNCHANGED <<riders, inherited>>
           ELSE IF SpeedExceeds(meters, f.ts - f.last.ts)
           THEN /\ Store(f.payload.id, [rider EXCEPT !.suspicious = @ + 1])
                /\ run' = [run EXCEPT ![c] =
                     [f EXCEPT !.pc = "ack", !.result = [accepted |-> FALSE, reason |-> "speed"]]]
           ELSE /\ run' = [run EXCEPT ![c] = [f EXCEPT !.pc = "score", !.meters = meters]]
                /\ UNCHANGED <<riders, inherited>>
    /\ UNCHANGED <<users, tz, mainHist, up, inbox, seen, disk, lastSave, serial>>

\* lines 167-173: distance, history, points and badges
Score(c) ==
    /\ up /\ run[c] # Null /\ run[c].pc = "score"
    /\ LET f == run[c]
           rider == Lookup(f.payload.id)
           r1 == [rider EXCEPT !.distance = @ + f.meters,
                               !.history = PushHistory(@,
                                   [lat |-> f.payload.lat, lon |-> f.payload.lon, ts |-> f.ts,
                                    meters |-> RoundMeters(f.meters)])]
           prevDistance == r1.distance - f.meters
           pts == awardPointsPerKm(r1, prevDistance, r1.distance)
           bdg == checkAndAwardBadges(pts.rider, prevDistance, r1.distance)
       IN  /\ Store(f.payload.id, bdg.rider)
           /\ run' = [run EXCEPT ![c] =
                [f EXCEPT !.pc = "challenge", !.kmsGained = pts.kmsGained,
                          !.pointsGained = pts.pointsGained, !.newly = bdg.newly]]
    /\ UNCHANGED <<users, tz, mainHist, up, inbox, seen, disk, lastSave, serial>>

\* line 174
Challenge(c) ==
    /\ up /\ run[c] # Null /\ run[c].pc = "challenge"
    /\ LET f == run[c]
           chl == updateChallengesForRider(Lookup(f.payload.id), f.meters, f.ts, tz)
       IN  /\ Store(f.payload.id, chl.rider)
           /\ run' = [run EXCEPT ![c] = [f EXCEPT !.pc = "update", !.events = chl.events]]
    /\ UNCHANGED <<users, tz, mainHist, up, inbox, seen, disk, lastSave, serial>>

ClientIndex(k) == CHOOSE i \in 1..Len(ClientOrder) : ClientOrder[i] = k

\* broadcastJSON(obj) inside the callback of c: wss.clients.forEach(c.send).  failAt =
\* 0: every send returns.  failAt = i: the send to the i-th client throws; nothing
\* catches it in forEach, in handlePosition or in the callback, so the clients behind
\* get nothing and the callback ends there; what the emitter that called the callback
\* does with the exception is outside this repository: the process ends or goes on.
broadcastJSON(c, obj, nextPc, failAt) ==
    /\ seen' = [k \in Conns |-> IF failAt = 0 \/ ClientIndex(k) < failAt
                               THEN Append(seen[k], obj) ELSE seen[k]]
    /\ IF failAt = 0
       THEN run' = [run EXCEPT ![c].pc = nextPc] /\ up' = up
       ELSE run' = [run EXCEPT ![c] = Null] /\ up' \in BOOLEAN

\* line 175
CastUpdate(c, faults) ==
    /\ up /\ run[c] # Null /\ run[c].pc = "update"
    /\ LET f == run[c]
       IN  \E failAt \in faults :
             broadcastJSON(c, RiderUpdate(Lookup(f.payload.id), f.payload),
                           IF HasGameEvent(f.kmsGained, f.newly, f.events)
                           THEN "event" ELSE "commit", failAt)
    /\ UNCHANGED <<riders, users, inherited, tz, mainHist, inbox, disk, lastSave, serial>>

\* lines 176-178
CastEvent(c, faults) ==
    /\ up /\ run[c] # Null /\ run[c].pc = "event"
    /\ LET f == run[c]
       IN  \E failAt \in faults :
             broadcastJSON(c, GameEvent(Lookup(f.payload.id), f.kmsGained, f.pointsGained,
                                        f.newly, f.events), "commit", failAt)
    /\ UNCHANGED <<riders, users, inherited, tz, mainHist, inbox, disk, lastSave, serial>>

\* lines 180-182
Commit(c) ==
    /\ up /\ run[c] # Null /\ run[c].pc = "commit"
    /\ LET f == run[c]
           rider == Lookup(f.payload.id)
       IN  /\ Store(f.payload.id, SetLast(rider, f.payload, f.ts))
           /\ run' = [run EXCEPT ![c] =
                [f EXCEPT !.pc = "ack", !.result = [accepted |-> TRUE, id |-> rider.id]]]
    /\ UNCHANGED <<users, tz, mainHist, up, inbox, seen, disk, lastSave, serial>>

\* line 195: the ack to the sender ends the callback
Ack(c) ==
    /\ up /\ run[c] # Null /\ run[c].pc = "ack"
    /\ seen' = [seen EXCEPT ![c] = Append(@, [type |-> "ack", result |-> run[c].result])]
    /\ run' = [run EXCEPT ![c] = Null]
    /\ UNCHANGED <<riders, users, inherited, tz, mainHist, up, inbox, disk, lastSave, serial>>

\* setInterval(saveData, ...): fs.writeFileSync returns, or throws an I/O error that
\* nothing catches, which ends the process
Save(outcomes) ==
    /\ up /\ CanStart("timer")
    /\ \E o \in outcomes :
         IF o = "ok"
         THEN disk' = riders /\ lastSave' = "ok" /\ up' = up
         ELSE disk' = disk /\ lastSave' = "error" /\ up' = FALSE
    /\ UNCHANGED <<riders, users, inherited, tz, mainHist, inbox, run, seen, serial>>

\* process.on('SIGINT' / 'SIGTERM'): saveData(), then process.exit(0)
Signal(outcomes) ==
    /\ up /\ CanStart("signal")
    /\ \E o \in outcomes :
         IF o = "ok"
         THEN disk' = riders /\ lastSave' = "ok"
         ELSE disk' = disk /\ lastSave' = "error at exit"
    /\ up' = FALSE
    /\ UNCHANGED <<riders, users, inherited, tz, mainHist, inbox, run, seen, serial>>

\* /api/login, begun like any other callback
LoopLogin(rawEmail, rawPseudo) ==
    /\ up /\ CanStart("http")
    /\ OnLogin(rawEmail, rawPseudo)
    /\ serial' = [r \in DOMAIN riders' |-> IF r \in DOMAIN serial THEN serial[r] ELSE riders'[r]]
    /\ UNCHANGED <<up, inbox, run, seen, disk, lastSave>>

Step(c, faults) ==
    \/ Resolve(c) \/ Filter(c) \/ Score(c) \/ Challenge(c)
    \/ CastUpdate(c, faults) \/ CastEvent(c, faults)
    \/ Commit(c) \/ Ack(c)

\* what the device on connection c reports: the rider's id, the place of the device
DeviceLat == [c \in Conns |-> IF c = "c1" THEN 0 ELSE 25004]
DevicePayloads(c) == [id : Ids, lat : {DeviceLat[c]}, lon : Lons, ts : {T0, T2}]

\* Two devices, 2500.4 m apart, report for one rider on two connections; every send
\* and every save succeeds
NextLoop ==
    \/ \E e \in MainEmails, p \in PseudoInputs : LoopLogin(e, p)
    \/ \E c \in Conns : \E payload \in DevicePayloads(c) : Receive(c, payload)
    \/ \E c \in Conns, now \in Clocks : Begin(c, now)
    \/ \E c \in Conns : Step(c, {0})
    \/ Save({"ok"})

SpecLoop == Init /\ [][NextLoop]_vars

\* The same, with sends that throw, saves that fail and the signals that stop the
\* server
NextFaults ==
    \/ \E e \in MainEmails, p \in PseudoInputs : LoopLogin(e, p)
    \/ \E c \in Conns : \E payload \in DevicePayloads(c) : Receive(c, payload)
    \/ \E c \in Conns, now \in Clocks : Begin(c, now)
    \/ \E c \in Conns : Step(c, 0..Len(ClientOrder))
    \/ Save({"ok", "error"})
    \/ Signal({"ok", "error"})

SpecFaults == Init /\ [][NextFaults]_vars

----------------------------------------------------------------------------
\* Vocabulary of the properties

IsPosition(r) == r # Null /\ r.type = "position"

\* the acknowledgement that closes the messages of one request
AckOf(msgs) == msgs[Len(msgs)].msg.result

\* the broadcasts of one request
BroadcastOf(msgs) == { i \in 1..Len(msgs) : msgs[i].to = "all" }
EventsOf(msgs, type) == { i \in BroadcastOf(msgs) : msgs[i].msg.type = type }

SpeedReject == [accepted |-> FALSE, reason |-> "speed"]

\* distance / elapsed seconds * 3.6 > 140, for a sample at ts after the fix `last`
ImpliedSpeedOver140(last, payload, ts) ==
    LET m == IF payload.lat >= last.lat THEN payload.lat - last.lat ELSE last.lat - payload.lat
    IN  (ts - last.ts) <= (m * 3600 - 1) \div (140 * Resolution)

\* C1  Speed gate: a sample for a known rider, newer than the rider's last fix, whose
\* implied speed exceeds 140 km/h is answered {accepted:false, reason:'speed'}, adds
\* exactly 1 to the rider's suspicious counter, changes nothing else of any rider and
\* broadcasts nothing.
C1_SpeedGate ==
    [][ \A r \in DOMAIN riders :
          ( /\ IsPosition(req') /\ req'.payload.id = r /\ ~IsInvalid(req'.payload)
            /\ riders[r].last # Null /\ req'.ts > riders[r].last.ts
            /\ ImpliedSpeedOver140(riders[r].last, req'.payload, req'.ts) )
          => /\ sent' = << [to |-> "sender", msg |-> [type |-> "ack", result |-> SpeedReject]] >>
             /\ riders' = [riders EXCEPT ![r].suspicious = @ + 1]
      ]_vars

\* a speed rejection has just been answered to a rider that had earned distance,
\* score and a badge and that was rejected before
C1_Witness ==
    /\ IsPosition(req) /\ AckOf(sent) = SpeedReject
    /\ req.payload.id \in DOMAIN riders
    /\ riders[req.payload.id].suspicious = 2
    /\ riders[req.payload.id].distance > 0
    /\ Len(riders[req.payload.id].badges) > 0

\* C2  Monotonicity: whatever message is handled, no rider's cumulative distance and
\* no rider's score decreases.
C2_Monotonic ==
    [][ \A r \in DOMAIN riders :
          /\ riders'[r].distance >= riders[r].distance
          /\ riders'[r].score >= riders[r].score ]_vars

\* a rider that moved there and back (two positive deltas) and then sent an older fix
C2_Witness ==
    \E r \in DOMAIN riders :
        /\ Len(riders[r].history) >= 2
        /\ riders[r].history[1].meters > 0 /\ riders[r].history[2].meters > 0
        /\ riders[r].history[1].lat # riders[r].history[2].lat
        /\ riders[r].score > 0
        /\ riders[r].last.ts < riders[r].history[2].ts

NoDuplicates(seq) == \A i, j \in 1..Len(seq) : seq[i] = seq[j] => i = j

\* the badge ids the game_events of one request report for rider key
BadgesReported(key, msgs) ==
    UNION { { <<key, msgs[i].msg.newBadges[j].id>> : j \in 1..Len(msgs[i].msg.newBadges) } :
              i \in EventsOf(msgs, "game_event") }

\* C3  Badges are additive and awarded once: a badge of a rider's list stays in it,
\* the list never holds a badge twice, and a badge a game_event reports as new was
\* reported by no earlier game_event of that rider.
C3_BadgesOnce ==
    [][ /\ \A r \in DOMAIN riders :
             /\ Range(riders[r].badges) \subseteq Range(riders'[r].badges)
             /\ NoDuplicates(riders'[r].badges)
        /\ IsPosition(req') => BadgesReported(req'.payload.id, sent') \cap badgeLog = {}
      ]_vars

\* a rider holds two badges, earned by two different samples, and has since had
\* another sample accepted that crossed no milestone
C3_Witness ==
    \E r \in DOMAIN riders :
        /\ riders[r].badges = <<BadgeId(1000), BadgeId(5000)>>
        /\ Len(riders[r].history) = 3
        /\ {<<r, BadgeId(1000)>>, <<r, BadgeId(5000)>>} \subseteq badgeLog
        /\ EventsOf(sent, "rider_update") # {}

\* the ids of the badges a list gained, in order
Gained(before, after) == [i \in 1..(Len(after) - Len(before)) |-> after[Len(before) + i].id]

\* the progress record of a challenge, as the handler finds it
ProgressOf(rider, cid) ==
    IF cid \in DOMAIN rider.challenges THEN rider.challenges[cid]
    ELSE [progressMeters |-> 0, lastReset |-> Null, completed |-> FALSE]

\* challenge cid of the rider went from not completed in its window to completed
NewlyCompleted(before, after, cid) ==
    /\ cid \in DOMAIN after.challenges /\ after.challenges[cid].completed
    /\ \/ ~ProgressOf(before, cid).completed
       \/ ProgressOf(before, cid).lastReset # after.challenges[cid].lastReset

\* the challenge_completed events of a rider's step, in the order of the challenge table
RECURSIVE CompletionEvents(_, _, _)
CompletionEvents(before, after, i) ==
    IF i > Len(CHALLENGES) THEN <<>>
    ELSE (IF NewlyCompleted(before, after, CHALLENGES[i].id)
          THEN << [type |-> "challenge_completed", challengeId |-> CHALLENGES[i].id,
                   riderId |-> after.id,
                   bonusPoints |-> (CHALLENGES[i].targetMeters \div 1000) * 5] >>
          ELSE <<>>) \o CompletionEvents(before, after, i + 1)

C7_WitnessNone ==
    /\ IsPosition(req) /\ Len(sent) = 2
    /\ sent[1].msg.type = "rider_update" /\ AckOf(sent).accepted

\* C10  Zero-distance acceptance: a sample for a known rider that is the rider's first
\* sample, or whose timestamp is not greater than that of the last fix, is accepted
\* wherever it lies, becomes the last fix, and changes nothing else of the rider:
\* distance, score, badges, history and suspicious counter stay as they were.
C10_ZeroDistance ==
    [][ \A r \in DOMAIN riders :
          ( /\ IsPosition(req') /\ req'.payload.id = r /\ ~IsInvalid(req'.payload)
            /\ (riders[r].last = Null \/ req'.ts <= riders[r].last.ts) )
          => /\ AckOf(sent') = [accepted |-> TRUE, id |-> r]
             /\ riders' = [riders EXCEPT ![r].last =
                             [lat |-> req'.payload.lat, lon |-> req'.payload.lon, ts |-> req'.ts]]
      ]_vars

\* a rider with distance, score and a rejection behind it has just had a sample
\* accepted that is older than its last accrued sample and 2500.4 m away from it
C10_Witness ==
    /\ IsPosition(req) /\ req.payload.id \in DOMAIN riders
    /\ AckOf(sent).accepted /\ Len(sent) = 1
    /\ LET rd == riders[req.payload.id]
       IN  /\ Len(rd.history) > 0 /\ rd.suspicious > 0 /\ rd.score > 0
           /\ rd.last.ts < rd.history[Len(rd.history)].ts
           /\ rd.last.lat # rd.history[Len(rd.history)].lat
           /\ rd.last.ts = req.ts

\* the <<rider, challenge, window key>> of the challenge_completed events of one request
CompletionsOf(request, msgs, zone) ==
    UNION { CompletedKeys(request.payload.id, msgs[i].msg.challengeEvents, request.ts, zone) :
              i \in EventsOf(msgs, "game_event") }

\* C4  Completion bonus fires once per window: for a rider, a challenge and a window
\* key at most one challenge_completed is ever emitted (and its bonus added once);
\* while completed is true for a window, distance in that window emits and adds nothing.
\* Stated for a server running in UTC, where the weekly key is the Monday's date.
C4_OncePerWindow ==
    [][ (tz = 0 /\ IsPosition(req')) =>
          /\ CompletionsOf(req', sent', tz) \cap doneLog = {}
          /\ \A r \in DOMAIN riders : \A i \in 1..Len(CHALLENGES) :
               LET cid == CHALLENGES[i].id
               IN  ( /\ req'.payload.id = r
                     /\ ProgressOf(riders[r], cid).completed
                     /\ riders'[r].challenges[cid].lastReset = riders[r].challenges[cid].lastReset )
                   => /\ ~NewlyCompleted(riders[r], riders'[r], cid)
                      /\ \A j \in EventsOf(sent', "game_event") :
                           \A k \in 1..Len(sent'[j].msg.challengeEvents) :
                             sent'[j].msg.challengeEvents[k].challengeId # cid
      ]_vars

\* the date of the Monday on or before the UTC day of ts
MondayOf(ts) ==
    LET d == ts \div DayMs
    IN  [day |-> d - ((((d + 4) % 7) + 6) % 7)]

\* the window key of the specification
SpecWindowKey(chal, ts) == IF chal.period = "daily" THEN [day |-> ts \div DayMs] ELSE MondayOf(ts)

\* C5  Window rollover: when a sample accrues distance, each challenge's progress is
\* reset (progress 0, completed false, the stored key replaced) exactly when the window
\* key of the sample's timestamp -- its UTC day for a daily challenge, the date of the
\* Monday of its week for a weekly one -- differs from the stored key; after a reset the
\* progress is the sample's delta alone, and without a reset the stored key stays.
C5_WindowRollover ==
    [][ \A r \in DOMAIN riders :
          ( /\ IsPosition(req') /\ req'.payload.id = r
            /\ Len(riders'[r].history) > Len(riders[r].history) )
          => \A i \in 1..Len(CHALLENGES) :
               LET chal == CHALLENGES[i]
                   old == ProgressOf(riders[r], chal.id)
                   new == riders'[r].challenges[chal.id]
                   key == SpecWindowKey(chal, req'.ts)
                   delta == riders'[r].distance - riders[r].distance
               IN  IF key # old.lastReset
                   THEN /\ new.lastReset = key
                        /\ new.progressMeters = delta
                        /\ new.completed = (delta >= chal.targetMeters * Resolution)
                   ELSE /\ new.lastReset = old.lastReset
                        /\ new.progressMeters =
                             IF old.completed THEN old.progressMeters
                             ELSE old.progressMeters + delta
      ]_vars

\* C6  rider_update on every acceptance: every handled sample that is answered
\* accepted:true -- a rider's first sample and zero-distance refreshes included --
\* broadcasts exactly one rider_update, with the rider's id and name, the sample's
\* coordinates, the rounded cumulative distance and the score.
C6_RiderUpdateAlways ==
    [][ \A r \in DOMAIN riders :
          ( IsPosition(req') /\ req'.payload.id = r /\ AckOf(sent').accepted )
          => \E i \in 1..Len(sent') :
               /\ EventsOf(sent', "rider_update") = {i}
               /\ sent'[i].msg.rider =
                    [id |-> r, name |-> riders'[r].name,
                     lat |-> req'.payload.lat, lon |-> req'.payload.lon,
                     distance |-> (2 * riders'[r].distance + Resolution) \div (2 * Resolution),
                     score |-> riders'[r].score]
      ]_vars

\* C8  Invalid and unknown-rider samples have no effect: a payload without id or with
\* a non-numeric lat or lon is answered reason 'invalid', one whose id is not in the
\* rider table reason 'unknown_rider'; either way the rider table is unchanged and
\* nothing is broadcast.
C8_RejectedNoEffect ==
    [][ IsPosition(req') =>
          LET pl == req'.payload
              bad == pl.id = "" \/ pl.lat = NotANumber \/ pl.lon = NotANumber
          IN  /\ bad => AckOf(sent') = [accepted |-> FALSE, reason |-> "invalid"]
              /\ (~bad /\ pl.id \notin DOMAIN riders)
                   => AckOf(sent') = [accepted |-> FALSE, reason |-> "unknown_rider"]
              /\ (bad \/ pl.id \notin DOMAIN riders)
                   => riders' = riders /\ BroadcastOf(sent') = {}
      ]_vars

\* C9  Distance accrues only for strictly newer timestamps: the timestamp of a rider's
\* last fix never decreases, and a sample adds distance only if its timestamp is
\* greater than that of every sample accepted before (the last fix and the history
\* hold such samples).
C9_NewerOnly ==
    [][ \A r \in DOMAIN riders :
          /\ riders[r].last # Null => riders'[r].last.ts >= riders[r].last.ts
          /\ riders'[r].distance > riders[r].distance
               => /\ req'.ts > riders[r].last.ts
                  /\ \A i \in 1..Len(riders[r].history) : req'.ts > riders[r].history[i].ts
      ]_vars

\* a record freshly reset for the window key
ResetRecord(key) == [progressMeters |-> 0, lastReset |-> key, completed |-> FALSE]

\* C11 (as stated)  Zero-delta refreshes trigger the rollover check: when an accepted
\* sample contributes zero distance because its timestamp is a duplicate or not
\* monotonic, and the window key of its timestamp differs from a challenge's stored key,
\* that challenge is reset (progress 0, completed false, stored key the new key).
\* Stated for a server running in UTC.
C11_RefreshRollover ==
    [][ \A r \in DOMAIN riders :
          ( /\ tz = 0 /\ IsPosition(req') /\ req'.payload.id = r /\ AckOf(sent').accepted
            /\ riders[r].last # Null /\ req'.ts <= riders[r].last.ts )
          => \A i \in 1..Len(CHALLENGES) :
               LET chal == CHALLENGES[i]
                   key == SpecWindowKey(chal, req'.ts)
               IN  ( chal.id \in DOMAIN riders[r].challenges
                     /\ riders[r].challenges[chal.id].lastReset # key )
                   => /\ chal.id \in DOMAIN riders'[r].challenges
                      /\ riders'[r].challenges[chal.id] = ResetRecord(key)
      ]_vars

\* C11 (amended)  The rollover check runs only for samples newer than the last fix.
\* An accepted first sample or one whose timestamp is not greater than that of the last
\* fix leaves every challenge record of the rider as it was, whatever its stored key.
\* An accepted newer sample that moves the rider by 0 m does run the check: a daily
\* challenge whose stored key differs from the UTC day of the sample is reset (progress
\* 0, completed false, key the sample's day), one whose key equals it is unchanged.
C11_RolloverOnlyWhenNewer ==
    [][ \A r \in DOMAIN riders :
          ( IsPosition(req') /\ req'.payload.id = r /\ AckOf(sent').accepted )
          => /\ (riders[r].last = Null \/ req'.ts <= riders[r].last.ts)
                  => riders'[r].challenges = riders[r].challenges
             /\ ( /\ riders[r].last # Null /\ req'.ts > riders[r].last.ts
                  /\ riders'[r].distance = riders[r].distance )
                  => \A i \in 1..Len(CHALLENGES) :
                       LET chal == CHALLENGES[i]
                           old == ProgressOf(riders[r], chal.id)
                           key == [day |-> req'.ts \div DayMs]
                       IN  chal.period = "daily" =>
                             /\ chal.id \in DOMAIN riders'[r].challenges
                             /\ riders'[r].challenges[chal.id] =
                                  IF old.lastReset # key THEN ResetRecord(key) ELSE old
      ]_vars

\* a rider whose daily challenge was completed on Tuesday has just had a Monday
\* sample accepted as a refresh: the record still carries Tuesday and completed
C11_Witness ==
    /\ IsPosition(req) /\ req.payload.id \in DOMAIN riders
    /\ AckOf(sent).accepted /\ Len(sent) = 1
    /\ LET rd == riders[req.payload.id]
       IN  /\ "daily_1km" \in DOMAIN rd.challenges
           /\ rd.challenges["daily_1km"].completed
           /\ rd.challenges["daily_1km"].lastReset # [day |-> req.ts \div DayMs]
           /\ rd.last.ts = req.ts

\* the bonus of every challenge the step from `before` to `after` completed
CompletionBonus(before, after) == BonusSum(CompletionEvents(before, after, 1))

\* C12  Points per kilometre: an accepted sample that takes the cumulative distance
\* from prev to new adds to the score exactly 10 * max(0, floor(new/1000) -
\* floor(prev/1000)) plus floor(targetMeters/1000) * 5 for each challenge it completes;
\* a first delta of 1000 m reports kmsGained 1, pointsGained 10, badge_1000 and the
\* completion of the daily challenge with bonus 5.
C12_PointsPerKm ==
    [][ \A r \in DOMAIN riders :
          ( IsPosition(req') /\ req'.payload.id = r /\ AckOf(sent').accepted )
          => LET prev == riders[r].distance
                 new == riders'[r].distance
                 kms == Max(0, (new \div (1000 * Resolution)) - (prev \div (1000 * Resolution)))
             IN  /\ riders'[r].score =
                      riders[r].score + 10 * kms + CompletionBonus(riders[r], riders'[r])
                 /\ (prev = 0 /\ new = 1000 * Resolution /\ riders[r].challenges = <<>>)
                      => /\ Len(sent') = 3
                         /\ sent'[2].msg.type = "game_event"
                         /\ sent'[2].msg.kmsGained = 1
                         /\ sent'[2].msg.pointsGained = 10
                         /\ Gained(<<>>, sent'[2].msg.newBadges) = <<BadgeId(1000)>>
                         /\ sent'[2].msg.challengeEvents =
                              << [type |-> "challenge_completed", challengeId |-> "daily_1km",
                                  riderId |-> r, bonusPoints |-> 5] >>
                         /\ riders'[r].score = 15
      ]_vars

\* a sample has just taken a rider from 500 m to 6500 m: six kilometres and both
\* challenges at once (60 + 5 + 25 points)
C12_Witness ==
    /\ IsPosition(req) /\ req.payload.id \in DOMAIN riders /\ Len(sent) = 3
    /\ sent[2].msg.type = "game_event"
    /\ sent[2].msg.kmsGained = 6
    /\ Len(sent[2].msg.challengeEvents) = 2
    /\ riders[req.payload.id].distance = 6500 * Resolution
    /\ riders[req.payload.id].score = 90

\* C13  Bounded history: a rider's history never holds more than 200 entries; an
\* accepted sample newer than the last fix appends its entry, and when the history is
\* full exactly the oldest entry leaves and the others keep their order; no other
\* message changes a history.
C13_BoundedHistory ==
    [][ \A r \in DOMAIN riders :
          LET h == riders[r].history
              appended == /\ IsPosition(req') /\ req'.payload.id = r /\ AckOf(sent').accepted
                          /\ riders[r].last # Null /\ req'.ts > riders[r].last.ts
              entry == [lat |-> req'.payload.lat, lon |-> req'.payload.lon, ts |-> req'.ts,
                        meters |-> (2 * (riders'[r].distance - riders[r].distance) + Resolution)
                                     \div (2 * Resolution)]
          IN  /\ Len(riders'[r].history) <= 200
              /\ riders'[r].history =
                   IF ~appended THEN h
                   ELSE IF Len(h) < 200 THEN h \o <<entry>>
                   ELSE SubSeq(h, 2, Len(h)) \o <<entry>>
      ]_vars

\* a full history whose three oldest entries have left: it starts with the fourth
\* accrued sample and ends with the last one, after a rejection and a week's rollover
C13_Witness ==
    \E r \in DOMAIN riders :
        /\ Len(riders[r].history) = 200
        /\ riders[r].history[1].ts = T0 + 4 * HourMs
        /\ riders[r].history[200].ts = T0 + 203 * HourMs
        /\ riders[r].suspicious > 0
        /\ riders[r].distance = 203 * WalkStep

\* C18  Score accounting: the score of a rider created by a login equals 10 *
\* floor(cumulative distance / 1000) plus the sum of the bonusPoints of all the
\* challenge_completed events emitted for that rider so far.
C18_ScoreAccounting ==
    \A r \in DOMAIN riders :
        riders[r].score = 10 * (riders[r].distance \div (1000 * Resolution)) + bonusLog[r]

\* a rider with 5000.8 m whose daily challenge was completed twice (5 + 5) and whose
\* weekly challenge once (25)
C18_Witness ==
    \E r \in DOMAIN riders :
        /\ riders[r].distance = 2 * 25004
        /\ bonusLog[r] = 35
        /\ riders[r].score = 85

\* the milestones a distance has reached
MilestonesUpTo(d) ==
    { BADGE_MILESTONES_METERS[i] : i \in { j \in 1..6 : BADGE_MILESTONES_METERS[j] * Resolution <= d } }

\* C19  Badge set matches distance: the badge list of a rider created by a login
\* holds badge_m exactly for the milestones m of {1000, 5000, 10000, 25000, 50000,
\* 100000} with m <= cumulative distance; a sample that crosses several milestones
\* awards and reports all of them in that step.
C19_BadgesMatchDistance ==
    [][ \A r \in DOMAIN riders' :
          /\ Range(riders'[r].badges) = { BadgeId(m) : m \in MilestonesUpTo(riders'[r].distance) }
          /\ (r \in DOMAIN riders /\ riders'[r].badges # riders[r].badges)
               => /\ IsPosition(req') /\ req'.payload.id = r
                  /\ EventsOf(sent', "game_event") = {2}
                  /\ { sent'[2].msg.newBadges[j].id : j \in 1..Len(sent'[2].msg.newBadges) }
                       = { BadgeId(m) : m \in MilestonesUpTo(riders'[r].distance)
                                               \ MilestonesUpTo(riders[r].distance) }
      ]_vars

\* one sample has just taken a rider from 500 m past 1000 m and 5000 m: two badges
\* in one game_event
C19_Witness ==
    /\ IsPosition(req) /\ req.payload.id \in DOMAIN riders /\ Len(sent) = 3
    /\ sent[2].msg.type = "game_event"
    /\ Len(sent[2].msg.newBadges) = 2
    /\ riders[req.payload.id].badges = <<BadgeId(1000), BadgeId(5000)>>
    /\ Len(riders[req.payload.id].history) = 2

\* C20  Challenge progress consistency: for every rider and every challenge with a
\* progress record, completed is true exactly when progressMeters >= targetMeters, and
\* progressMeters is at most the rider's cumulative distance; while completed is true
\* and the stored window key stays, progressMeters and completed do not change.
C20_ProgressConsistent ==
    [][ \A r \in DOMAIN riders' : \A i \in 1..Len(CHALLENGES) :
          LET chal == CHALLENGES[i]
          IN  chal.id \in DOMAIN riders'[r].challenges =>
                LET new == riders'[r].challenges[chal.id]
                IN  /\ new.completed <=> (new.progressMeters >= chal.targetMeters * Resolution)
                    /\ new.progressMeters <= riders'[r].distance
                    /\ ( /\ r \in DOMAIN riders /\ chal.id \in DOMAIN riders[r].challenges
                         /\ riders[r].challenges[chal.id].completed
                         /\ riders[r].challenges[chal.id].lastReset = new.lastReset )
                       => new = riders[r].challenges[chal.id]
      ]_vars

\* a rider went on for 2500.4 m after completing the daily challenge, in the same
\* window: the record kept the progress it was completed with
C20_Witness ==
    \E r \in DOMAIN riders :
        /\ "daily_1km" \in DOMAIN riders[r].challenges
        /\ riders[r].challenges["daily_1km"].completed
        /\ riders[r].challenges["daily_1km"].progressMeters = 25004
        /\ riders[r].distance = 2 * 25004
        /\ doneLog = { <<r, "daily_1km", [day |-> 5]>>, <<r, "weekly_5km", [day |-> 4]>> }

\* an address after trimming and lower-casing; the addresses with an '@'
Canonical(raw) == IF raw = " A@X.io " THEN "a@x.io" ELSE raw
WithAt == {"a@x.io", "b@y.io"}

\* C17  Registration creates a rider once: the first login with a valid address adds
\* exactly one rider, under a new id, with distance 0, score 0, no badge, empty
\* history, no challenge progress and no last position, and answers that id; a later
\* login with the same address (after trimming and lower-casing) answers the id of
\* the first, and leaves the rider table and the user table as they are; a login with
\* an empty address or one without '@' is answered 400 and creates nothing.
C17_RegisterOnce ==
    [][ (req' # Null /\ req'.type = "login") =>
          LET email == Canonical(req'.email)
              answer == sent'[1].msg
          IN  IF email \notin WithAt
              THEN /\ riders' = riders /\ users' = users
                   /\ answer.status = 400
              ELSE IF email \in DOMAIN users
              THEN /\ riders' = riders /\ users' = users
                   /\ answer.status = 200 /\ answer.id = users[email].id
              ELSE \E id \in DOMAIN riders' \ DOMAIN riders :
                   /\ DOMAIN riders' = DOMAIN riders \cup {id}
                   /\ \A r \in DOMAIN riders : riders'[r] = riders[r]
                   /\ riders'[id].id = id
                   /\ riders'[id].distance = 0 /\ riders'[id].score = 0
                   /\ riders'[id].badges = <<>> /\ riders'[id].history = <<>>
                   /\ riders'[id].challenges = <<>> /\ riders'[id].last = Null
                   /\ DOMAIN users' = DOMAIN users \cup {email}
                   /\ \A e \in DOMAIN users : users'[e] = users[e]
                   /\ users'[email].id = id
                   /\ answer.status = 200 /\ answer.id = id
      ]_vars

\* two riders are registered, the first has ridden, and the first address, typed
\* with blanks and capitals and another pseudo, has just been answered the first id
C17_Witness ==
    /\ req # Null /\ req.type = "login" /\ req.email = " A@X.io " /\ req.pseudo = ""
    /\ DOMAIN riders = {"r1", "r2"}
    /\ users["a@x.io"].id = "r1"
    /\ sent[1].msg.id = "r1" /\ sent[1].msg.pseudo = "Zoe"
    /\ riders["r1"].distance > 0 /\ riders["r1"].score > 0

Idle == \A c \in Conns : run[c] = Null

\* C14  Per-rider atomicity: position messages for one rider that wait on different
\* connections are handled one whole callback after the other: whenever no callback is
\* executing the rider table is the one that handling the messages whole, in the order
\* their callbacks began, produces (no lost update), and what a save writes to
\* data.json is such a table, never a rider in the middle of a callback.
C14_Atomic ==
    [][ /\ Idle' => riders' = serial'
        /\ disk' # disk => disk' = serial'
      ]_vars

\* a sample of rider r1 is between its score and its challenge update on one
\* connection while another sample of r1 waits on the other connection
C14_Witness ==
    /\ run["c1"] # Null /\ run["c1"].pc = "challenge" /\ run["c1"].payload.id = "r1"
    /\ inbox["c2"] # Null /\ inbox["c2"].id = "r1"
    /\ inbox["c2"].lat # run["c1"].payload.lat
    /\ disk # Null

\* C15  Broadcast failure isolation: when a broadcast made for an accepted sample
\* fails for one observer, every other observer still receives the message, the
\* server goes on, and the callback goes on to the commit and the ack: it never ends
\* with the distance added and the last position not advanced.
C15_BroadcastIsolation ==
    [][ \A c \in Conns :
          ( run[c] # Null /\ run[c].pc \in {"update", "event"} /\ run'[c] # run[c] )
          => /\ up'
             /\ run'[c] # Null /\ run'[c].pc \in {"event", "commit"}
             /\ Cardinality({ k \in Conns : seen'[k] = seen[k] }) <= 1
      ]_vars

\* C16  Persistence failures do not stop the engine: when a periodic save fails with
\* an I/O error the process keeps running (later messages are handled, later saves
\* attempted) and the failure changes neither the rider table nor the user table.
C16_SaveFailureSurvived ==
    [][ lastSave' = "error" =>
          /\ up'
          /\ lastSave # "error" => (riders' = riders /\ users' = users)
      ]_vars

====
